---------------------------- MODULE Spec2Model ----------------------------
(***************************************************************************)
(* Virtual-TA retrieval pipeline: the word-window chunker, the embedding   *)
(* client with its retry / split policy, the batch ingestion run that      *)
(* builds and saves the corpus (src/embedding.py) and the query server     *)
(* that loads and searches it (src/app.py).                                *)
(*                                                                         *)
(* Four specifications share the variables; each leaves the variables of   *)
(* the other parts unchanged:                                              *)
(*   SpecChunk   one call of chunk_by_words                                *)
(*   SpecEmbed   one top-level call of safe_embed                          *)
(*   SpecEmbedFair  the same, every enabled step of it being taken         *)
(*   SpecIngest  one run of main() of embedding.py                         *)
(*   SpecServe   module load of app.py followed by POST /query requests    *)
(***************************************************************************)
EXTENDS Integers, Sequences, FiniteSets, TLC

VARIABLES
    \* ---- chunk_by_words (embedding.py:29-39)
    cText,        \* the text argument, a sequence of characters
    cMaxWords,    \* the max_words argument
    cOverlap,     \* the overlap argument
    cWords,       \* local `words`
    cChunks,      \* local `chunks`
    cStart,       \* local `start`
    cPc,          \* "idle" | "loop" | "done"
    \* ---- safe_embed / embed_text (embedding.py:42-70)
    eStack,       \* the active safe_embed frames, innermost last
    eResult,      \* outcome of the top-level safe_embed call
    eCalls,       \* history: the text last handed to the provider and the
                  \* outcomes of the provider calls made for it so far
    eWaits,       \* history: the time.sleep calls made for that text
    \* ---- main / index_batch (embedding.py:171-240)
    all_texts,    \* the chunk texts collected by main (their character counts)
    batchStart,   \* loop variable i of main's batch loop (0-based)
    batchPos,     \* number of texts of the current batch already embedded
    embs,         \* local `embs` of index_batch
    index,        \* the module-level FAISS index of embedding.py
    metadata,     \* the module-level metadata list of embedding.py
    fileIndex,    \* model/virtual-ta.faiss on disk
    fileMeta,     \* model/metadata.json on disk
    mPc,          \* position of main
    \* ---- app.py
    srvIndex,     \* the module-level index of app.py
    srvMetadata,  \* the module-level metadata of app.py
    srvPc,        \* "boot" | "serving" | "crashed"
    qPc,          \* position of the current /query request
    qK,           \* top_k handed to search_similar
    qVec,         \* the query embedding
    qChunks,      \* similar_chunks
    qReply,       \* the response of the request
    qEmbedCalls,  \* history: embedding-provider calls of the request
    qGenCalls     \* history: generative-model calls of the request

chunkVars  == <<cText, cMaxWords, cOverlap, cWords, cChunks, cStart, cPc>>
embedVars  == <<eStack, eResult, eCalls, eWaits>>
ingestVars == <<all_texts, batchStart, batchPos, embs, index, metadata, mPc>>
fileVars   == <<fileIndex, fileMeta>>
serveVars  == <<srvIndex, srvMetadata, srvPc, qPc, qK, qVec, qChunks, qReply,
                qEmbedCalls, qGenCalls>>
vars == <<chunkVars, embedVars, ingestVars, fileVars, serveVars>>

Min(a, b) == IF a <= b THEN a ELSE b
Max(a, b) == IF a >= b THEN a ELSE b

(***************************************************************************)
(* Bounds of the model.                                                    *)
(***************************************************************************)
MaxTextChars == 5   \* longest text handed to chunk_by_words, in characters
MaxWindow    == 3   \* largest max_words and overlap tried
MaxLoop      == 4   \* iterations explored of a chunk loop that cannot end

(***************************************************************************)
(* chunk_by_words                                                          *)
(***************************************************************************)
Chars == {"a", "b", " "}

RECURSIVE TextsUpTo(_)
TextsUpTo(n) ==
    IF n = 0 THEN {<<>>}
    ELSE LET shorter == TextsUpTo(n - 1)
         IN  shorter \cup {Append(t, c) : t \in {s \in shorter : Len(s) = n - 1},
                                          c \in Chars}

\* str.split() with no argument: the maximal runs of non-whitespace
\* characters, in order; leading, trailing and repeated whitespace yields
\* no empty word.
RECURSIVE SplitFrom(_, _, _)
SplitFrom(text, i, cur) ==
    IF i > Len(text)
    THEN IF cur = <<>> THEN <<>> ELSE <<cur>>
    ELSE IF text[i] = " "
         THEN IF cur = <<>> THEN SplitFrom(text, i + 1, <<>>)
              ELSE <<cur>> \o SplitFrom(text, i + 1, <<>>)
         ELSE SplitFrom(text, i + 1, Append(cur, text[i]))

Split(text) == SplitFrom(text, 1, <<>>)

\* " ".join(ws)
RECURSIVE Join(_)
Join(ws) ==
    IF ws = <<>> THEN <<>>
    ELSE IF Len(ws) = 1 THEN ws[1]
    ELSE ws[1] \o <<" ">> \o Join(Tail(ws))

\* Python's s[lo:hi] on a list of length n (0-based, hi exclusive), with
\* Python's treatment of negative and out-of-range bounds.
PySlice(s, lo, hi) ==
    LET n  == Len(s)
        l0 == IF lo < 0 THEN Max(lo + n, 0) ELSE Min(lo, n)
        h0 == IF hi < 0 THEN Max(hi + n, 0) ELSE Min(hi, n)
    IN  IF l0 >= h0 THEN <<>> ELSE SubSeq(s, l0 + 1, h0)

ChunkInit ==
    /\ cText \in TextsUpTo(MaxTextChars)
    /\ cMaxWords \in 1..MaxWindow
    /\ cOverlap \in 0..MaxWindow
    /\ cWords = <<>>
    /\ cChunks = <<>>
    /\ cStart = 0
    /\ cPc = "idle"

\* lines 31-33: words = text.split(); chunks = []; start = 0
ChunkEnter ==
    /\ cPc = "idle"
    /\ cWords' = Split(cText)
    /\ cChunks' = <<>>
    /\ cStart' = 0
    /\ cPc' = "loop"
    /\ UNCHANGED <<cText, cMaxWords, cOverlap>>

\* a loop body that advances by the whole window, forgetting the overlap
ChunkBodyNoOverlap ==
    /\ cPc = "loop"
    /\ cStart < Len(cWords)
    /\ Len(cChunks) < MaxLoop
    /\ LET end == Min(cStart + cMaxWords, Len(cWords))
       IN  cChunks' = Append(cChunks, Join(PySlice(cWords, cStart, end)))
    /\ cStart' = cStart + cMaxWords
    /\ UNCHANGED <<cText, cMaxWords, cOverlap, cWords, cPc>>

\* lines 34-38: one iteration of the while loop
ChunkBody ==
    /\ cPc = "loop"
    /\ cStart < Len(cWords)
    /\ Len(cChunks) < MaxLoop
    /\ LET end == Min(cStart + cMaxWords, Len(cWords))
       IN  cChunks' = Append(cChunks, Join(PySlice(cWords, cStart, end)))
    /\ cStart' = cStart + cMaxWords - cOverlap
    /\ UNCHANGED <<cText, cMaxWords, cOverlap, cWords, cPc>>

\* lines 34, 39: the loop condition fails and chunks is returned
ChunkReturn ==
    /\ cPc = "loop"
    /\ ~(cStart < Len(cWords))
    /\ cPc' = "done"
    /\ UNCHANGED <<cText, cMaxWords, cOverlap, cWords, cChunks, cStart>>

ChunkNext ==
    \/ ChunkEnter /\ UNCHANGED <<embedVars, ingestVars, fileVars, serveVars>>
    \/ ChunkBody /\ UNCHANGED <<embedVars, ingestVars, fileVars, serveVars>>
    \/ ChunkReturn /\ UNCHANGED <<embedVars, ingestVars, fileVars, serveVars>>

(***************************************************************************)
(* Vectors.  The provider's 768-dimensional float vectors are modelled as  *)
(* 2-dimensional exact rationals [x, y, den] standing for (x/den, y/den),  *)
(* kept in lowest terms with den > 0.  den = 0 is the all-NaN vector that  *)
(* numpy yields for 0/0.                                                   *)
(***************************************************************************)
Abs(a) == IF a < 0 THEN -a ELSE a

RECURSIVE Gcd(_, _)
Gcd(a, b) == IF b = 0 THEN a ELSE Gcd(b, a % b)

NaNVec == [x |-> 0, y |-> 0, den |-> 0]
NoVec  == [x |-> 0, y |-> 0, den |-> -1]   \* "no value yet"

IsNaN(v) == v.den = 0

Reduce(x, y, d) ==
    LET g == Gcd(Gcd(Abs(x), Abs(y)), d)
    IN  [x |-> x \div g, y |-> y \div g, den |-> d \div g]

\* the raw embeddings the provider answers with; their norms are integers
RawVecs == {<<3, 4>>, <<-4, 3>>, <<0, 0>>}

ISqrt(n) == CHOOSE r \in 0..n : r * r = n

\* embedding / np.linalg.norm(embedding): numpy divides by a zero norm
\* without raising and yields NaN in every component
Normalized(raw) ==
    LET n2 == raw[1] * raw[1] + raw[2] * raw[2]
    IN  IF n2 = 0 THEN NaNVec ELSE Reduce(raw[1], raw[2], ISqrt(n2))

IsUnit(v) == v.den > 0 /\ v.x * v.x + v.y * v.y = v.den * v.den

\* (np.array(left) + np.array(right)) / 2
Average(l, r) ==
    IF IsNaN(l) \/ IsNaN(r) THEN NaNVec
    ELSE Reduce(l.x * r.den + r.x * l.den, l.y * r.den + r.y * l.den,
                2 * l.den * r.den)

(***************************************************************************)
(* safe_embed.  A text is identified by its place <<off, len>> in the text *)
(* of the top-level call; only its length decides what safe_embed does.    *)
(***************************************************************************)
SPLIT_LEN   == 10000   \* line 65: len(text) > 10000
RETRY_CAP   == 3       \* line 60: retry_count < 3
WAIT_UNIT   == 10      \* line 61: wait_time = 10 * (retry_count + 1)
MaxSplitDepth == 2     \* deepest split of the texts tried

RECURSIVE Pow2(_)
Pow2(n) == IF n = 0 THEN 1 ELSE 2 * Pow2(n - 1)

\* lengths tried: short texts, the threshold itself, and texts that can be
\* halved d times before both halves are at most SPLIT_LEN long
EmbedLens == {1, SPLIT_LEN} \cup {SPLIT_LEN * Pow2(d - 1) + 1 : d \in 1..MaxSplitDepth}

Frame(off, len) ==
    [off |-> off, len |-> len, rc |-> 0, pc |-> "call", left |-> NoVec]

NoResult == [status |-> "none", vec |-> NoVec, err |-> "none"]
NoCalls  == [text |-> <<0, 0>>, outs |-> <<>>]

Top == eStack[Len(eStack)]
Below == SubSeq(eStack, 1, Len(eStack) - 1)

\* history of the provider calls made for the text now being embedded; the
\* calls for one text are consecutive: a frame calls the provider only at
\* "call", and a split frame never returns there
Logged(f, out) ==
    IF eCalls.text = <<f.off, f.len>>
    THEN [eCalls EXCEPT !.outs = Append(@, out)]
    ELSE [text |-> <<f.off, f.len>>, outs |-> <<out>>]

LoggedWaits(f, w) ==
    IF eCalls.text = <<f.off, f.len>> THEN Append(eWaits, w) ELSE <<w>>

KeptWaits(f) == IF eCalls.text = <<f.off, f.len>> THEN eWaits ELSE <<>>

\* a frame returns `vec`: to the caller of the top-level call, or to the
\* frame below, which is at line 67 (left) or line 68 (right)
RECURSIVE Deliver(_, _)
Deliver(stack, vec) ==
    IF stack = <<>>
    THEN [stack |-> <<>>, result |-> [status |-> "ok", vec |-> vec, err |-> "none"]]
    ELSE LET p    == stack[Len(stack)]
             rest == SubSeq(stack, 1, Len(stack) - 1)
             mid  == p.len \div 2
         IN  IF p.pc = "left"
             THEN [stack |-> rest \o <<[p EXCEPT !.pc = "right", !.left = vec],
                                       Frame(p.off + mid, p.len - mid)>>,
                   result |-> NoResult]
             ELSE Deliver(rest, Average(p.left, vec))

\* lines 57, 44-51: the provider answers and embed_text returns the
\* normalized vector
EmbedOk(raw) ==
    /\ eStack # <<>> /\ Top.pc = "call"
    /\ LET d == Deliver(Below, Normalized(raw))
       IN  /\ eStack' = d.stack
           /\ eResult' = d.result
    /\ eCalls' = Logged(Top, "ok")
    /\ eWaits' = KeptWaits(Top)

\* whether safe_embed tries the same text again after a rate/quota failure
MayRetryFour(rc) == rc <= RETRY_CAP
MayRetryAlways(rc) == TRUE
MayRetry(rc) == rc < RETRY_CAP

\* the sleep before the next try
WaitFlat(rc) == WAIT_UNIT
WaitTime(rc) == WAIT_UNIT * (rc + 1)

\* lines 58-64, 70: the provider fails with a message holding "quota" or
\* "rate", which is what safe_embed takes for a rate-limit signal
EmbedRateLimited ==
    /\ eStack # <<>> /\ Top.pc = "call"
    /\ eCalls' = Logged(Top, "rate")
    /\ IF MayRetry(Top.rc)
       THEN /\ eWaits' = LoggedWaits(Top, WaitTime(Top.rc))
            /\ eStack' = Below \o <<[Top EXCEPT !.rc = @ + 1]>>
            /\ eResult' = eResult
       ELSE /\ eWaits' = KeptWaits(Top)
            /\ eStack' = <<>>
            /\ eResult' = [status |-> "raised", vec |-> NoVec, err |-> "rate"]

\* lines 58-59, 65-70: the provider fails with any other message
EmbedOtherError ==
    /\ eStack # <<>> /\ Top.pc = "call"
    /\ eCalls' = Logged(Top, "other")
    /\ eWaits' = KeptWaits(Top)
    /\ IF Top.len > SPLIT_LEN
       THEN /\ eStack' = Below \o <<[Top EXCEPT !.pc = "left"],
                                    Frame(Top.off, Top.len \div 2)>>
            /\ eResult' = eResult
       ELSE /\ eStack' = <<>>
            /\ eResult' = [status |-> "raised", vec |-> NoVec, err |-> "other"]

EmbedStep ==
    \/ \E raw \in RawVecs : EmbedOk(raw)
    \/ EmbedRateLimited
    \/ EmbedOtherError

EmbedIdle ==
    /\ eStack = <<>>
    /\ eResult = NoResult
    /\ eCalls = NoCalls
    /\ eWaits = <<>>

(***************************************************************************)
(* main and index_batch of embedding.py                                    *)
(***************************************************************************)
BATCH_SIZE == 2   \* line 20 sets 100; scaled down so that runs of several
                  \* batches stay small
MaxChunks  == 3   \* most chunk texts collected by one run
PriorCount == 1   \* records of the corpus a previous run left on disk

\* a file: absent, complete ("ok") or cut short by a failed write
\* ("partial"); gen tells the run that wrote it (0: an earlier run)
AbsentFile == [st |-> "absent", gen |-> 0, data |-> <<>>]
PartialFile == [st |-> "partial", gen |-> 1, data |-> <<>>]
NewFile(data) == [st |-> "ok", gen |-> 1, data |-> data]

UnitVec == [x |-> 1, y |-> 0, den |-> 1]
PriorIndexFile ==
    [st |-> "ok", gen |-> 0,
     data |-> [i \in 1..PriorCount |-> [vec |-> UnitVec, of |-> -i]]]
PriorMetaFile ==
    [st |-> "ok", gen |-> 0,
     data |-> [i \in 1..PriorCount |-> [text |-> -i, source |-> -i]]]

\* chunk texts as main collects them: text i has an identity (its place
\* in all_texts) and a length in characters
IngestLens == {1, SPLIT_LEN + 1}

RECURSIVE SeqsUpTo(_, _)
SeqsUpTo(S, n) ==
    IF n = 0 THEN {<<>>}
    ELSE LET shorter == SeqsUpTo(S, n - 1)
         IN  shorter \cup {Append(t, c) : t \in {s \in shorter : Len(s) = n - 1},
                                          c \in S}

\* lines 219-220: all_texts[i:i+BATCH_SIZE], as the places 1-based
BatchIds == (batchStart + 1)..Min(batchStart + BATCH_SIZE, Len(all_texts))
BatchLen == Cardinality(BatchIds)

IngestInit ==
    /\ all_texts \in SeqsUpTo(IngestLens, MaxChunks)
    /\ batchStart = 0
    /\ batchPos = 0
    /\ embs = <<>>
    /\ index = <<>>
    /\ metadata = <<>>
    /\ \/ fileIndex = AbsentFile /\ fileMeta = AbsentFile
       \/ fileIndex = PriorIndexFile /\ fileMeta = PriorMetaFile
    /\ mPc = "start"

\* lines 194-215: the texts are collected; with none, main returns
MainStart ==
    /\ mPc = "start"
    /\ mPc' = IF all_texts = <<>> THEN "done" ELSE "batch_loop"
    /\ UNCHANGED <<all_texts, batchStart, batchPos, embs, index, metadata>>
    /\ UNCHANGED <<embedVars, fileVars>>

\* lines 218-221, 173-174: the next batch is handed to index_batch
BatchBegin ==
    /\ mPc = "batch_loop"
    /\ batchStart < Len(all_texts)
    /\ embs' = <<>>
    /\ batchPos' = 0
    /\ mPc' = "embed"
    /\ UNCHANGED <<all_texts, batchStart, index, metadata>>
    /\ UNCHANGED <<embedVars, fileVars>>

\* lines 175-178: emb = safe_embed(text) is called for the next text
EmbedCall ==
    /\ mPc = "embed"
    /\ batchPos < BatchLen
    /\ eStack' = <<Frame(0, all_texts[batchStart + batchPos + 1])>>
    /\ eResult' = NoResult
    /\ eCalls' = NoCalls
    /\ eWaits' = <<>>
    /\ mPc' = "embedding"
    /\ UNCHANGED <<all_texts, batchStart, batchPos, embs, index, metadata>>
    /\ UNCHANGED fileVars

\* safe_embed at work for index_batch
EmbedRun ==
    /\ mPc = "embedding"
    /\ EmbedStep
    /\ UNCHANGED <<ingestVars, fileVars>>

\* line 179: embs.append(emb)
EmbedReturned ==
    /\ mPc = "embedding"
    /\ eResult.status = "ok"
    /\ embs' = Append(embs, [vec |-> eResult.vec, of |-> batchStart + batchPos + 1])
    /\ batchPos' = batchPos + 1
    /\ mPc' = "embed"
    /\ UNCHANGED <<all_texts, batchStart, index, metadata>>
    /\ UNCHANGED <<embedVars, fileVars>>

\* safe_embed raised: nothing in index_batch or main catches it
EmbedRaised ==
    /\ mPc = "embedding"
    /\ eResult.status = "raised"
    /\ mPc' = "aborted"
    /\ UNCHANGED <<all_texts, batchStart, batchPos, embs, index, metadata>>
    /\ UNCHANGED <<embedVars, fileVars>>

\* lines 181-182: index.add(arr)
IndexAdd ==
    /\ mPc = "embed"
    /\ batchPos = BatchLen
    /\ index' = index \o embs
    /\ mPc' = "extend"
    /\ UNCHANGED <<all_texts, batchStart, batchPos, embs, metadata>>
    /\ UNCHANGED <<embedVars, fileVars>>

\* the records index_batch appends for the batch
BatchRecordsShort ==
    [k \in 1..(BatchLen - 1) |->
        [text |-> batchStart + k, source |-> batchStart + k]]

BatchRecords ==
    [k \in 1..BatchLen |-> [text |-> batchStart + k, source |-> batchStart + k]]

\* line 183 and the loop step of line 218: metadata.extend(...)
MetaExtend ==
    /\ mPc = "extend"
    /\ metadata' = metadata \o BatchRecords
    /\ batchStart' = batchStart + BATCH_SIZE
    /\ mPc' = "batch_loop"
    /\ UNCHANGED <<all_texts, batchPos, embs, index>>
    /\ UNCHANGED <<embedVars, fileVars>>

\* lines 224-228: faiss.write_index succeeds
SaveIndex ==
    /\ mPc = "batch_loop"
    /\ ~(batchStart < Len(all_texts))
    /\ fileIndex' = NewFile(index)
    /\ mPc' = "save_meta"
    /\ UNCHANGED <<all_texts, batchStart, batchPos, embs, index, metadata>>
    /\ UNCHANGED <<embedVars, fileMeta>>

\* lines 224-228: os.makedirs or faiss.write_index raises; the file is
\* untouched or holds what was written before the failure
SaveIndexFails ==
    /\ mPc = "batch_loop"
    /\ ~(batchStart < Len(all_texts))
    /\ fileIndex' \in {fileIndex, PartialFile}
    /\ mPc' = "aborted"
    /\ UNCHANGED <<all_texts, batchStart, batchPos, embs, index, metadata>>
    /\ UNCHANGED <<embedVars, fileMeta>>

\* lines 231-232: the metadata file is written
SaveMeta ==
    /\ mPc = "save_meta"
    /\ fileMeta' = NewFile(metadata)
    /\ mPc' = "done"
    /\ UNCHANGED <<all_texts, batchStart, batchPos, embs, index, metadata>>
    /\ UNCHANGED <<embedVars, fileIndex>>

\* lines 231-232: open(..., "w") raises (file untouched) or json.dump
\* raises after open truncated the file
SaveMetaFails ==
    /\ mPc = "save_meta"
    /\ fileMeta' \in {fileMeta, PartialFile}
    /\ mPc' = "aborted"
    /\ UNCHANGED <<all_texts, batchStart, batchPos, embs, index, metadata>>
    /\ UNCHANGED <<embedVars, fileIndex>>

IngestNext ==
    \/ MainStart /\ UNCHANGED <<chunkVars, serveVars>>
    \/ BatchBegin /\ UNCHANGED <<chunkVars, serveVars>>
    \/ EmbedCall /\ UNCHANGED <<chunkVars, serveVars>>
    \/ EmbedRun /\ UNCHANGED <<chunkVars, serveVars>>
    \/ EmbedReturned /\ UNCHANGED <<chunkVars, serveVars>>
    \/ EmbedRaised /\ UNCHANGED <<chunkVars, serveVars>>
    \/ IndexAdd /\ UNCHANGED <<chunkVars, serveVars>>
    \/ MetaExtend /\ UNCHANGED <<chunkVars, serveVars>>
    \/ SaveIndex /\ UNCHANGED <<chunkVars, serveVars>>
    \/ SaveIndexFails /\ UNCHANGED <<chunkVars, serveVars>>
    \/ SaveMeta /\ UNCHANGED <<chunkVars, serveVars>>
    \/ SaveMetaFails /\ UNCHANGED <<chunkVars, serveVars>>

(***************************************************************************)
(* app.py: corpus load at import time and the /query request               *)
(***************************************************************************)
SIMILARITY_THRESHOLD == 0   \* line 25
TOP_K_RESULTS        == 5   \* line 26
MaxIndex == 4   \* most vectors in the index artifact
MaxMeta  == 4   \* most records in the metadata artifact
MaxK     == 2   \* top_k values 1..MaxK are tried besides TOP_K_RESULTS

\* similarities are exact rationals [num, den]; den = 0 is NaN
Dot(a, b) ==
    IF IsNaN(a) \/ IsNaN(b) THEN [num |-> 0, den |-> 0]
    ELSE [num |-> a.x * b.x + a.y * b.y, den |-> a.den * b.den]

\* float comparisons; any comparison with NaN is false
Geq(s, t) == s.den > 0 /\ t.den > 0 /\ s.num * t.den >= t.num * s.den
Gt(s, t)  == s.den > 0 /\ t.den > 0 /\ s.num * t.den > t.num * s.den

Threshold == [num |-> SIMILARITY_THRESHOLD, den |-> 1]

\* vectors found in an index artifact: unit vectors, the average that
\* safe_embed returns for a split text, and the NaN vector
StoredVecs ==
    {Normalized(<<3, 4>>), Normalized(<<-3, -4>>),
     Average(Normalized(<<3, 4>>), Normalized(<<-4, 3>>)), NaNVec}

IndexFiles ==
    {AbsentFile, PartialFile} \cup
    {[st |-> "ok", gen |-> 1,
      data |-> [i \in 1..Len(vs) |-> [vec |-> vs[i], of |-> i]]] :
        vs \in SeqsUpTo(StoredVecs, MaxIndex)}

MetaFiles ==
    {AbsentFile, PartialFile} \cup
    {[st |-> "ok", gen |-> 1,
      data |-> [i \in 1..m |-> [text |-> i, source |-> i]]] : m \in 0..MaxMeta}

TopKs == (1..MaxK) \cup {TOP_K_RESULTS}

NoReply == [status |-> 0, answer |-> "none", links |-> <<>>, detail |-> "none"]
FallbackReply ==
    [status |-> 200, answer |-> "no relevant information", links |-> <<>>,
     detail |-> "none"]
\* HTTPException(status_code=500, detail=...) of lines 95, 131 and 200
ErrorReply(detail) ==
    [status |-> 500, answer |-> "none", links |-> <<>>, detail |-> detail]

RequestIdle ==
    /\ qPc = "idle"
    /\ qK = 0
    /\ qVec = NoVec
    /\ qChunks = <<>>
    /\ qReply = NoReply
    /\ qEmbedCalls = 0
    /\ qGenCalls = 0

ServeInit ==
    /\ fileIndex \in IndexFiles
    /\ fileMeta \in MetaFiles
    /\ srvIndex = <<>>
    /\ srvMetadata = <<>>
    /\ srvPc = "boot"
    /\ RequestIdle

\* lines 36-47: both artifacts are read; a missing or unreadable one
\* raises and the import of the module fails
LoadCorpus ==
    /\ srvPc = "boot"
    /\ IF fileIndex.st = "ok" /\ fileMeta.st = "ok"
       THEN /\ srvIndex' = fileIndex.data
            /\ srvMetadata' = fileMeta.data
            /\ srvPc' = "serving"
       ELSE /\ srvPc' = "crashed"
            /\ UNCHANGED <<srvIndex, srvMetadata>>
    /\ UNCHANGED <<qPc, qK, qVec, qChunks, qReply, qEmbedCalls, qGenCalls>>
    /\ UNCHANGED fileVars

\* a POST /query request arrives (line 204); the model also enumerates
\* the top_k parameter of search_similar, which the handler leaves at its
\* default TOP_K_RESULTS
QueryArrives(k) ==
    /\ srvPc = "serving"
    /\ qPc \in {"idle", "answered", "failed"}
    /\ qPc' = "embed"
    /\ qK' = k
    /\ qVec' = NoVec
    /\ qChunks' = <<>>
    /\ qReply' = NoReply
    /\ qEmbedCalls' = 0
    /\ qGenCalls' = 0
    /\ UNCHANGED <<srvIndex, srvMetadata, srvPc, fileVars>>

\* lines 78-92: get_embedding, the provider answers
GetEmbedding(raw) ==
    /\ qPc = "embed"
    /\ qEmbedCalls' = qEmbedCalls + 1
    /\ qVec' = Normalized(raw)
    /\ qPc' = "search"
    /\ UNCHANGED <<srvIndex, srvMetadata, srvPc, qK, qChunks, qReply, qGenCalls,
                   fileVars>>

\* lines 93-95, 221-222: the provider raises; HTTP 500
GetEmbeddingFails ==
    /\ qPc = "embed"
    /\ qEmbedCalls' = qEmbedCalls + 1
    /\ qReply' = ErrorReply("Embedding error")
    /\ qPc' = "failed"
    /\ UNCHANGED <<srvIndex, srvMetadata, srvPc, qK, qVec, qChunks, qGenCalls,
                   fileVars>>

\* index.search(query_vector, n) of an inner-product flat index: the n
\* best positions (0-based) by inner product, best first, padded with
\* position -1 when the index holds fewer; a NaN product never ranks
RECURSIVE Ranked(_, _, _)
Ranked(idx, q, left) ==
    IF left = {} THEN <<>>
    ELSE LET best == CHOOSE i \in left : \A j \in left \ {i} :
                        \/ Gt(Dot(idx[i].vec, q), Dot(idx[j].vec, q))
                        \/ (~Gt(Dot(idx[j].vec, q), Dot(idx[i].vec, q)) /\ i < j)
         IN  <<[idx |-> best - 1, dist |-> Dot(idx[best].vec, q)]>>
             \o Ranked(idx, q, left \ {best})

Padding == [idx |-> -1, dist |-> [num |-> -1, den |-> 0]]

IndexSearch(idx, q, n) ==
    LET comparable == {i \in 1..Len(idx) : ~IsNaN(idx[i].vec) /\ ~IsNaN(q)}
        ranked == Ranked(idx, q, comparable)
    IN  [c \in 1..n |-> IF c <= Len(ranked) THEN ranked[c] ELSE Padding]

\* lines 110-111: the candidate is skipped
UnresolvedNegOnly(cand, meta) == cand.idx < 0
Unresolved(cand, meta) == cand.idx < 0 \/ cand.idx >= Len(meta)

\* metadata[idx] of line 116: Python counts a negative idx from the end of
\* the list and raises IndexError outside -len..len-1
Indexable(meta, i) == -Len(meta) <= i /\ i < Len(meta)
PyItem(meta, i) == IF i < 0 THEN meta[Len(meta) + i + 1] ELSE meta[i + 1]

\* line 115
Passes(sim) == Geq(sim, Threshold)

\* lines 108-123: the filter loop over the candidates, in search order
RECURSIVE Gather(_, _)
Gather(cands, meta) ==
    IF cands = <<>> THEN <<>>
    ELSE LET c    == Head(cands)
             rest == Gather(Tail(cands), meta)
         IN  IF Unresolved(c, meta) THEN rest
             ELSE IF Passes(c.dist)
                  THEN IF Indexable(meta, c.idx)
                       THEN <<[content |-> PyItem(meta, c.idx).text,
                               source |-> PyItem(meta, c.idx).source,
                               similarity |-> c.dist]>> \o rest
                       ELSE rest
                  ELSE rest

\* line 116 raises for a candidate that is neither skipped nor indexable
GatherRaises(cands, meta) ==
    \E c \in 1..Len(cands) :
        /\ ~Unresolved(cands[c], meta)
        /\ Passes(cands[c].dist)
        /\ ~Indexable(meta, cands[c].idx)

\* line 125: list.sort(key=similarity, reverse=True), a stable sort
RECURSIVE InsertDesc(_, _)
InsertDesc(sorted, r) ==
    IF sorted = <<>> THEN <<r>>
    ELSE IF Gt(r.similarity, Head(sorted).similarity)
         THEN <<r>> \o sorted
         ELSE <<Head(sorted)>> \o InsertDesc(Tail(sorted), r)

RECURSIVE SortDesc(_)
SortDesc(rs) ==
    IF rs = <<>> THEN <<>>
    ELSE InsertDesc(SortDesc(SubSeq(rs, 1, Len(rs) - 1)), rs[Len(rs)])

\* line 128: results[:top_k]
TakeAll(rs, k) == rs
Take(rs, k) == SubSeq(rs, 1, Min(k, Len(rs)))

\* lines 98-128
search_similar(idx, meta, q, k) ==
    Take(SortDesc(Gather(IndexSearch(idx, q, k * 2), meta)), k)

\* line 213; an exception inside search_similar becomes HTTP 500 (lines
\* 129-131, 221-222)
SearchSimilar ==
    /\ qPc = "search"
    /\ IF GatherRaises(IndexSearch(srvIndex, qVec, qK * 2), srvMetadata)
       THEN /\ qReply' = ErrorReply("Search error")
            /\ qPc' = "failed"
            /\ UNCHANGED qChunks
       ELSE /\ qChunks' = search_similar(srvIndex, srvMetadata, qVec, qK)
            /\ qPc' = "generate"
            /\ UNCHANGED qReply
    /\ UNCHANGED <<srvIndex, srvMetadata, srvPc, qK, qVec, qEmbedCalls,
                   qGenCalls, fileVars>>

\* line 139: `if not context_chunks`
NeverEmpty(chunks) == FALSE
NoContext(chunks) == chunks = <<>>

\* lines 186-191: one link per chunk, in order
Links(chunks) ==
    [i \in 1..Len(chunks) |-> [url |-> chunks[i].source, text |-> chunks[i].content]]

\* lines 139-143: no chunks, the fixed answer is returned
AnswerFallback ==
    /\ qPc = "generate"
    /\ NoContext(qChunks)
    /\ qReply' = FallbackReply
    /\ qPc' = "answered"
    /\ UNCHANGED <<srvIndex, srvMetadata, srvPc, qK, qVec, qChunks, qEmbedCalls,
                   qGenCalls, fileVars>>

\* lines 145-196: the generative model is called once and answers
AnswerGenerated ==
    /\ qPc = "generate"
    /\ ~NoContext(qChunks)
    /\ qGenCalls' = qGenCalls + 1
    /\ qReply' = [status |-> 200, answer |-> "generated", links |-> Links(qChunks),
                  detail |-> "none"]
    /\ qPc' = "answered"
    /\ UNCHANGED <<srvIndex, srvMetadata, srvPc, qK, qVec, qChunks, qEmbedCalls,
                   fileVars>>

\* lines 177, 198-200: the generative model raises; HTTP 500
AnswerFails ==
    /\ qPc = "generate"
    /\ ~NoContext(qChunks)
    /\ qGenCalls' = qGenCalls + 1
    /\ qReply' = ErrorReply("Generation error")
    /\ qPc' = "failed"
    /\ UNCHANGED <<srvIndex, srvMetadata, srvPc, qK, qVec, qChunks, qEmbedCalls,
                   fileVars>>

ServeNext ==
    \/ LoadCorpus /\ UNCHANGED <<chunkVars, embedVars, ingestVars>>
    \/ \E k \in TopKs : QueryArrives(k) /\ UNCHANGED <<chunkVars, embedVars, ingestVars>>
    \/ \E raw \in RawVecs : GetEmbedding(raw) /\ UNCHANGED <<chunkVars, embedVars, ingestVars>>
    \/ GetEmbeddingFails /\ UNCHANGED <<chunkVars, embedVars, ingestVars>>
    \/ SearchSimilar /\ UNCHANGED <<chunkVars, embedVars, ingestVars>>
    \/ AnswerFallback /\ UNCHANGED <<chunkVars, embedVars, ingestVars>>
    \/ AnswerGenerated /\ UNCHANGED <<chunkVars, embedVars, ingestVars>>
    \/ AnswerFails /\ UNCHANGED <<chunkVars, embedVars, ingestVars>>

(***************************************************************************)
(* The specifications                                                      *)
(***************************************************************************)
ChunkIdle ==
    /\ cText = <<>> /\ cMaxWords = 1 /\ cOverlap = 0
    /\ cWords = <<>> /\ cChunks = <<>> /\ cStart = 0 /\ cPc = "idle"

IngestIdle ==
    /\ all_texts = <<>> /\ batchStart = 0 /\ batchPos = 0 /\ embs = <<>>
    /\ index = <<>> /\ metadata = <<>> /\ mPc = "start"

FilesIdle == fileIndex = AbsentFile /\ fileMeta = AbsentFile

ServeIdle ==
    /\ srvIndex = <<>> /\ srvMetadata = <<>> /\ srvPc = "boot" /\ RequestIdle

InitChunk == ChunkInit /\ EmbedIdle /\ IngestIdle /\ FilesIdle /\ ServeIdle

SpecChunk == InitChunk /\ [][ChunkNext]_vars

EmbedInit ==
    /\ \E len \in EmbedLens : eStack = <<Frame(0, len)>>
    /\ eResult = NoResult
    /\ eCalls = NoCalls
    /\ eWaits = <<>>

EmbedNext ==
    \/ EmbedRateLimited /\ UNCHANGED <<chunkVars, ingestVars, fileVars, serveVars>>
    \/ EmbedOtherError /\ UNCHANGED <<chunkVars, ingestVars, fileVars, serveVars>>
    \/ \E raw \in RawVecs :
          EmbedOk(raw) /\ UNCHANGED <<chunkVars, ingestVars, fileVars, serveVars>>

InitEmbed == ChunkIdle /\ EmbedInit /\ IngestIdle /\ FilesIdle /\ ServeIdle

SpecEmbed == InitEmbed /\ [][EmbedNext]_vars

\* safe_embed runs in one thread and every provider call and sleep comes
\* back: a call that can take a step takes it
SpecEmbedFair == SpecEmbed /\ WF_vars(EmbedNext)

InitIngest == ChunkIdle /\ EmbedIdle /\ IngestInit /\ ServeIdle

SpecIngest == InitIngest /\ [][IngestNext]_vars

InitServe == ChunkIdle /\ EmbedIdle /\ IngestIdle /\ ServeInit

SpecServe == InitServe /\ [][ServeNext]_vars

(***************************************************************************)
(* Properties of chunk_by_words (SpecChunk)                                *)
(***************************************************************************)
C8_Step == cMaxWords - cOverlap
C8_Count == (Len(cWords) + C8_Step - 1) \div C8_Step
C8_End(i) == Min(i * C8_Step + cMaxWords, Len(cWords))

\* C8: with max_words > overlap >= 0 the returned chunks are exactly, for
\* every i >= 0 with i*(w-o) < n, the words [i*(w-o), min(i*(w-o)+w, n))
\* in their order joined by single spaces; every word lies in some chunk
\* and the last chunk ends at word n.
C8_ChunkCoverage ==
    (cPc = "done" /\ cMaxWords > cOverlap) =>
        /\ cChunks = [k \in 1..C8_Count |->
                        Join(SubSeq(cWords, (k - 1) * C8_Step + 1, C8_End(k - 1)))]
        /\ \A j \in 1..Len(cWords) :
              \E k \in 1..Len(cChunks) :
                  (k - 1) * C8_Step < j /\ j <= C8_End(k - 1)
        /\ Len(cWords) > 0 => C8_End(Len(cChunks) - 1) = Len(cWords)

C8_Witness ==
    /\ cPc = "done"
    /\ cOverlap > 0 /\ cMaxWords > cOverlap
    /\ Len(cWords) = 3
    /\ Len(cChunks) >= 2
    /\ cChunks[1] = <<"a", " ", "b">>

\* C9: a call with at least one word and max_words - overlap <= 0 is
\* rejected: it never runs the loop body, so it emits no chunk.
C9_WindowRejected ==
    (cPc # "idle" /\ Len(cWords) >= 1 /\ cMaxWords - cOverlap <= 0) =>
        cChunks = <<>>

(***************************************************************************)
(* Properties of safe_embed (SpecEmbed)                                    *)
(***************************************************************************)
Rates(n) == [i \in 1..n |-> "rate"]

\* C3 as stated: three rate-limit failures in a row make safe_embed fail
\* even when the 4th attempt succeeds; two followed by a success return
\* the embedding.
C3_CapAtThreeAttempts ==
    /\ eCalls.outs = Rates(3) \o <<"ok">> => eResult.status = "raised"
    /\ (eCalls.outs = Rates(2) \o <<"ok">> /\ eStack = <<>>) => eResult.status = "ok"

\* C3 amended: after three rate-limit failures in a row a 4th attempt is
\* made: if it succeeds safe_embed returns the embedding, if it is
\* rate-limited too safe_embed fails; two failures followed by a success
\* return the embedding.
C3_RetryCap ==
    /\ eCalls.outs = Rates(3) =>
          eResult = NoResult /\ eStack # <<>> /\ Top.pc = "call"
    /\ (eCalls.outs = Rates(3) \o <<"ok">> /\ eStack = <<>>) => eResult.status = "ok"
    /\ eCalls.outs = Rates(4) =>
          eResult.status = "raised" /\ eResult.err = "rate" /\ eStack = <<>>
    /\ (eCalls.outs = Rates(2) \o <<"ok">> /\ eStack = <<>>) => eResult.status = "ok"

C3_Witness ==
    /\ eCalls.outs = Rates(3) \o <<"ok">>
    /\ eStack = <<>>
    /\ eResult.status = "ok" /\ IsUnit(eResult.vec)

C4_RateCount == Cardinality({i \in 1..Len(eCalls.outs) : eCalls.outs[i] = "rate"})

\* C4: for one text the provider is called again at most 3 times after
\* rate/quota failures, after sleeps of 10, 20 and 30 seconds in that
\* order; a rate/quota failure of the third retry is raised to the caller:
\* no vector is returned and the text is not split, whatever its length.
C4_Backoff ==
    /\ Len(eCalls.outs) <= 4
    /\ eWaits = SubSeq(<<10, 20, 30>>, 1, Min(C4_RateCount, 3))
    /\ C4_RateCount = 4 =>
          /\ eResult = [status |-> "raised", vec |-> NoVec, err |-> "rate"]
          /\ eStack = <<>>

C4_Witness ==
    /\ eCalls.text[2] > SPLIT_LEN
    /\ eCalls.outs = Rates(4)
    /\ eWaits = <<10, 20, 30>>
    /\ eResult.status = "raised"

\* C5: a vector returned by safe_embed has unit L2 norm, also when it is
\* the average of the vectors of the two halves of a split text (the
\* zero-norm NaN outcome is left aside here).
C5_FallbackUnit ==
    (eResult.status = "ok" /\ ~IsNaN(eResult.vec)) => IsUnit(eResult.vec)

(***************************************************************************)
(* Properties of the ingestion run (SpecIngest)                            *)
(***************************************************************************)
\* C1: index and metadata grow in lockstep.  Outside the one step between
\* index.add and metadata.extend the index holds as many vectors as the
\* metadata holds records, entry i of both coming from text i; between the
\* two the index is ahead by exactly the batch; after each completed batch
\* both hold all texts of the batches done; saved artifacts have equal
\* counts.
C1_Lockstep ==
    /\ mPc # "extend" =>
          /\ Len(index) = Len(metadata)
          /\ \A i \in 1..Len(index) : index[i].of = i /\ metadata[i].text = i
    /\ mPc = "extend" =>
          /\ index = SubSeq(index, 1, Len(metadata)) \o embs
          /\ Len(embs) = BatchLen
          /\ \A i \in 1..Len(index) : index[i].of = i
    /\ mPc \in {"batch_loop", "save_meta"} =>
          Len(metadata) = Min(batchStart, Len(all_texts))
    /\ (fileIndex.gen = 1 /\ fileIndex.st = "ok" /\ fileMeta.gen = 1 /\ fileMeta.st = "ok") =>
          /\ Len(fileIndex.data) = Len(fileMeta.data)
          /\ Len(fileMeta.data) = Len(all_texts)

C1_Witness ==
    /\ mPc = "done"
    /\ Len(all_texts) = BATCH_SIZE + 1
    /\ Len(index) = BATCH_SIZE + 1 /\ Len(metadata) = BATCH_SIZE + 1
    /\ fileIndex = NewFile(index) /\ fileMeta = NewFile(metadata)

\* C2: when a run has ended, normally or by an exception, the two
\* artifacts are either both the complete new corpus or both as they were
\* before the run; in particular two readable artifacts never disagree in
\* record count.
C2_AllOrNothing ==
    mPc \in {"done", "aborted"} =>
        /\ \/ fileIndex = NewFile(index) /\ fileMeta = NewFile(metadata)
                /\ Len(index) = Len(all_texts) /\ Len(metadata) = Len(all_texts)
           \/ fileIndex.gen = 0 /\ fileMeta.gen = 0
        /\ (fileIndex.st = "ok" /\ fileMeta.st = "ok") =>
              Len(fileIndex.data) = Len(fileMeta.data)

\* C11: a raw embedding of zero norm is an error: embed_text and safe_embed
\* never return the vector that the division by the zero norm yields, and
\* no such vector is collected by index_batch or added to the index.
C11_ZeroNormIsError ==
    /\ eResult.status = "ok" => ~IsNaN(eResult.vec)
    /\ \A i \in 1..Len(embs) : ~IsNaN(embs[i].vec)
    /\ \A i \in 1..Len(index) : ~IsNaN(index[i].vec)

(***************************************************************************)
(* Properties of the server (SpecServe)                                    *)
(***************************************************************************)
\* C6: once the module has been loaded, the server is serving exactly when
\* both artifacts were readable and hold the same number of entries; any
\* other corpus ends startup with an error, and no request is handled.
C6_FatalOnMismatch ==
    srvPc # "boot" =>
        /\ srvPc = "serving" <=>
              /\ fileIndex.st = "ok" /\ fileMeta.st = "ok"
              /\ Len(fileIndex.data) = Len(fileMeta.data)
        /\ srvPc = "crashed" => qPc = "idle"

C7_Fetched == IndexSearch(srvIndex, qVec, qK * 2)

\* C7: search_similar returns at most top_k results, each with
\* similarity >= SIMILARITY_THRESHOLD, though 2*top_k candidates are
\* fetched.
C7_AtMostKAboveThreshold ==
    /\ Len(qChunks) <= qK
    /\ \A i \in 1..Len(qChunks) : Geq(qChunks[i].similarity, Threshold)
    /\ qPc = "generate" => Len(C7_Fetched) = 2 * qK

C7_Witness ==
    /\ qPc = "generate"
    /\ Len(qChunks) = qK
    /\ Len(Gather(C7_Fetched, srvMetadata)) > qK
    /\ \E c \in 1..Len(C7_Fetched) :
          /\ ~Unresolved(C7_Fetched[c], srvMetadata)
          /\ ~Geq(C7_Fetched[c].dist, Threshold)

\* C10: a request answered with no retrieved chunk gets the fixed answer
\* with no links; the generative model was not called and the embedding
\* call is the request's only external call.
C10_NoContextNoGeneration ==
    (qPc \in {"answered", "failed"} /\ qVec # NoVec /\ qChunks = <<>>) =>
        /\ qPc = "answered"
        /\ qReply = FallbackReply
        /\ qGenCalls = 0
        /\ qEmbedCalls = 1

C10_Witness ==
    /\ qPc = "answered"
    /\ qChunks = <<>>
    /\ srvIndex # <<>> /\ srvMetadata # <<>> /\ ~IsNaN(qVec)
    /\ qReply = FallbackReply
    /\ qGenCalls = 0

\* C12: search_similar skips every candidate position that is -1 (padding)
\* or >= len(metadata) and does not raise; each returned result is built
\* from metadata[p] for a position p, 0 <= p < len(metadata), that the index
\* search returned, with that candidate's similarity.
C12_DesyncTolerated ==
    /\ qReply.detail # "Search error"
    /\ qPc = "generate" =>
          \A i \in 1..Len(qChunks) :
              \E c \in 1..Len(C7_Fetched) :
                  LET p == C7_Fetched[c].idx
                  IN  /\ 0 <= p /\ p < Len(srvMetadata)
                      /\ qChunks[i].content = srvMetadata[p + 1].text
                      /\ qChunks[i].source = srvMetadata[p + 1].source
                      /\ qChunks[i].similarity = C7_Fetched[c].dist

C12_Witness ==
    /\ qPc = "generate"
    /\ qChunks # <<>>
    /\ \E c \in 1..Len(C7_Fetched) : C7_Fetched[c].idx = -1
    /\ \E c \in 1..Len(C7_Fetched) :
          /\ C7_Fetched[c].idx >= Len(srvMetadata)
          /\ Passes(C7_Fetched[c].dist)

(***************************************************************************)
(* Termination of safe_embed (SpecEmbedFair)                               *)
(***************************************************************************)
\* what bounds a call: each frame has used at most RETRY_CAP retries and
\* has called the provider at most RETRY_CAP + 1 times, a frame waiting for
\* a half is longer than SPLIT_LEN, and the frame above it embeds a
\* strictly shorter text with a retry count that started at 0
C13_Bounded ==
    /\ Len(eCalls.outs) <= RETRY_CAP + 1
    /\ \A i \in 1..Len(eStack) :
          /\ eStack[i].rc \in 0..RETRY_CAP
          /\ i < Len(eStack) =>
                /\ eStack[i].pc \in {"left", "right"}
                /\ eStack[i].len > SPLIT_LEN
                /\ eStack[i + 1].len < eStack[i].len
                /\ eStack[i + 1].len >= 1
          /\ i = Len(eStack) => eStack[i].pc = "call"
          /\ eStack[i].len <= SPLIT_LEN => eStack[i].pc = "call"
    /\ eStack # <<>> => eResult = NoResult

C13_Ended == eStack = <<>> /\ eResult.status \in {"ok", "raised"}

\* C13: whatever the provider answers on each call, a top-level safe_embed
\* call ends by returning a vector or raising; on the way every half is
\* strictly shorter than the text it halves, no text of at most SPLIT_LEN
\* characters is split, and every text gets its own budget of RETRY_CAP
\* retries.
C13_Terminates == []C13_Bounded /\ <>C13_Ended

C13_Witness ==
    /\ C13_Ended
    /\ eResult.status = "ok"
    /\ eCalls.text[1] > SPLIT_LEN
    /\ eCalls.text[2] <= SPLIT_LEN
    /\ eCalls.outs = Rates(3) \o <<"ok">>

=============================================================================
